---- MODULE Spec2Model ----
(***************************************************************************)
(* Room lifecycle and content-storage consistency of the Drop server:      *)
(* RoomService (drop/server/src/services/roomService.ts) and the cleanup   *)
(* job (drop/server/src/jobs/cleanup.ts).                                  *)
(*                                                                         *)
(* The durable state is the Room table, the RoomItem table (foreign key on *)
(* roomId, ON DELETE CASCADE) and the blob store.  Every `await` of a      *)
(* handler is one atomic step; between two steps of one handler any other  *)
(* handler, the clock or another cleanup run may act.  A handler that is   *)
(* never scheduled again models a crash or a timeout at that await.        *)
(*                                                                         *)
(* Identifiers drawn by nanoid (room ids, item ids, the random part of a   *)
(* file key) are modelled as fresh: a draw either hits a room that is      *)
(* live (the primary key rejects it) or is an id never used before.        *)
(* The type, content, fileName, mimeType and metadata of an item are       *)
(* payload no modelled operation reads; they are left out of the rows.     *)
(*                                                                         *)
(* The second part models the Next.js prototype (web/): its JSON database  *)
(* (web/lib/db.ts), its upload directory (web/lib/storage.ts), the server  *)
(* action createRoom, the room and upload routes, and the pure functions   *)
(* of web/services.  It runs in one Node process: a handler runs without   *)
(* interruption up to its next await on I/O.  The model starts it with the *)
(* database cache loaded.  The two programs share nothing but the clock;   *)
(* Spec is the server, SpecWeb the prototype.                              *)
(***************************************************************************)
EXTENDS Integers, FiniteSets, Sequences, TLC

\* Bounds of the model.
NumProcs == 2
MaxTime == 2
MaxRooms == 2
MaxPuts == 2

\* config.room.ttlDays and config.limits.maxItemsPerRoom, as configured for
\* the model (ROOM_TTL_DAYS, MAX_ITEMS_PER_ROOM); one clock tick is one day.
ttlDays == 1
maxItemsPerRoom == 1

Procs == 1..NumProcs
NoRoom == 0
NoItem == 0
NoKey == <<>>

VARIABLES
    now,        \* new Date(): the wall clock, in days
    rooms,      \* the Room table: id -> [createdAt, expiresAt, isPinned]
    items,      \* the RoomItem table: rows [id, roomId, fileKey, createdAt]
    blobs,      \* the keys present in the blob store
    nextRoom,   \* the next unused room id
    nextId,     \* the next unused nanoid (item id, file key)
    proc,       \* per in-flight handler: its position and its locals
    reply,      \* what the last step returned to its caller, if it returned
    dbCache,    \* web: the loaded database, [rooms, contentItems]
    dbFile,     \* web: what data/db.json holds
    uploads,    \* web: the files of public/uploads, filename -> bytes
    accessMode, \* web: the access mode selected for each room id
    handler,    \* web: per in-flight request, its position and its locals
    answer      \* web: what the last step answered, if it answered

webVars == <<dbCache, dbFile, uploads, accessMode, handler, answer>>

vars == <<now, rooms, items, blobs, nextRoom, nextId, proc, reply, webVars>>

----------------------------------------------------------------------------
\* Reads of the durable state.

ItemsOf(r) == {i \in items : i.roomId = r}

FileKeysOf(r) == {i.fileKey : i \in {j \in ItemsOf(r) : j.fileKey # NoKey}}

\* storage.listAll(prefix): the keys under `${roomId}/`.
listAll(r) == {k \in blobs : k[1] = r}

\* RoomService.getRoom: null when the room row is absent, else the room
\* with its item rows.
getRoom(r) ==
    IF r \in DOMAIN rooms
    THEN [found |-> TRUE, items |-> ItemsOf(r)]
    ELSE [found |-> FALSE, items |-> {}]

\* RoomService.isRoomValid: the row exists and expiresAt is not before now.
isRoomValid(r) ==
    /\ r \in DOMAIN rooms
    /\ ~(rooms[r].expiresAt < now)

\* Variant: the ceiling compared with > instead of >=.
itemLimitReached_Strict(r) == Cardinality(ItemsOf(r)) > maxItemsPerRoom

\* itemCount >= config.limits.maxItemsPerRoom
itemLimitReached(r) == Cardinality(ItemsOf(r)) >= maxItemsPerRoom

\* Variant: the query without its isPinned filter.
expiredRooms_IgnoresPin == {r \in DOMAIN rooms : rooms[r].expiresAt < now}

\* Variant: the query with lte instead of lt.
expiredRooms_Inclusive ==
    {r \in DOMAIN rooms : rooms[r].expiresAt <= now /\ rooms[r].isPinned = FALSE}

\* The candidate query of cleanupExpiredRooms:
\* findMany({ where: { expiresAt: { lt: new Date() }, isPinned: false } }).
expiredRooms ==
    {r \in DOMAIN rooms : rooms[r].expiresAt < now /\ rooms[r].isPinned = FALSE}

----------------------------------------------------------------------------
\* Writes of the durable state.

\* storage.upload / storage.delete on the blob store.
storageUpload(k) == blobs \cup {k}
storageDelete(k) == blobs \ {k}

\* Variant: the RoomItem table without its foreign key.
roomItemCreateAllowed_NoForeignKey(r) == TRUE

\* RoomItem_roomId_fkey: an item row is accepted only for an existing room.
roomItemCreateAllowed(r) == r \in DOMAIN rooms

\* ON DELETE CASCADE: deleting a room row deletes its item rows.
itemsAfterRoomDelete(r) == {i \in items : i.roomId # r}

roomsWithout(r) == [x \in DOMAIN rooms \ {r} |-> rooms[x]]

----------------------------------------------------------------------------
\* Handler bookkeeping.

Blank ==
    [pc |-> "idle", op |-> "none", room |-> NoRoom, item |-> NoItem,
     key |-> NoKey, keys |-> {}, cands |-> {},
     startTime |-> 0, successCount |-> 0, failCount |-> 0, failed |-> {}]

NoReply ==
    [op |-> "none", res |-> "none", room |-> NoRoom, key |-> NoKey,
     successCount |-> 0, failCount |-> 0, failed |-> {}]

SetProc(p, rec) == proc' = [proc EXCEPT ![p] = rec]

\* Handler p goes on to its next await.
Continue(p, rec) == SetProc(p, rec) /\ reply' = NoReply

\* Handler p returns (res = "ok", "created") or throws (any other res:
\* the service's own errors "RoomNotFound", "RoomFull", "ItemNotFound"; a
\* "StorageError" of the blob store; or an error of the database, a
\* rejected key ("PkViolation", "FkViolation"), a record to delete that
\* does not exist ("RowGone"), or any other failure ("DbError")).
Return(p, res) ==
    /\ SetProc(p, Blank)
    /\ reply' = [NoReply EXCEPT !.op = proc[p].op, !.res = res,
                                !.room = proc[p].room, !.key = proc[p].key]

\* Puts that passed isRoomValid and have not drawn their id yet.
PendingPuts == {p \in Procs : proc[p].pc \in {"cti_count", "cti_create", "cfi_count"}}

----------------------------------------------------------------------------
\* The Next.js prototype: pure functions of web/services.

\* Bounds of the prototype's model.
NumHandlers == 2
MaxWebRooms == 2
MaxUploads == 2
MaxWebTime == 1

Handlers == 1..NumHandlers

\* enum AccessMode
FULL_ACCESS == "full"
READ_ONLY == "read_only"
DROP_ONLY == "drop_only"
AccessModes == {FULL_ACCESS, READ_ONLY, DROP_ONLY}

\* Variant: canWrite with READ_ONLY in the place of DROP_ONLY.
canWrite_ReadOnly(mode) == mode = FULL_ACCESS \/ mode = READ_ONLY

canRead(mode) == mode = FULL_ACCESS \/ mode = READ_ONLY

canWrite(mode) == mode = FULL_ACCESS \/ mode = DROP_ONLY

\* A string is the sequence of its characters.
ALPHABET ==
    <<"2", "3", "4", "5", "6", "7", "8", "9",
      "a", "b", "c", "d", "e", "f", "g", "h", "i", "j", "k", "m", "n", "o",
      "p", "q", "r", "s", "t", "u", "v", "w", "x", "y", "z",
      "A", "B", "C", "D", "E", "F", "G", "H", "J", "K", "L", "M", "N", "P",
      "Q", "R", "S", "T", "U", "V", "W", "X", "Y", "Z">>

ALPHABET_LENGTH == Len(ALPHABET)

\* The default of generateRoomCode's length parameter, and the length
\* isValidRoomCode asks for.
DefaultLength == 8
ValidLength == 8

\* The values of a Uint8Array element.
Bytes == 0..255

\* str[i] of JavaScript, i counted from 0; undefined beyond the end.
charAt(str, i) == IF i + 1 \in 1..Len(str) THEN str[i + 1] ELSE "undefined"

\* Variant: the byte reduced modulo 64 instead of ALPHABET_LENGTH.
generateRoomCode_Mod64(array) ==
    [i \in 1..Len(array) |-> charAt(ALPHABET, array[i] % 64)]

\* generateRoomCode(length) for the bytes getRandomValues has put in array:
\* result += ALPHABET[array[i] % ALPHABET_LENGTH] for each i.
generateRoomCode(array) ==
    [i \in 1..Len(array) |-> charAt(ALPHABET, array[i] % ALPHABET_LENGTH)]

\* String.prototype.includes for a one-character argument.
includes(str, char) == \E j \in 1..Len(str) : str[j] = char

isValidRoomCode(code) ==
    IF code = <<>> \/ Len(code) # ValidLength THEN FALSE
    ELSE \A i \in 1..Len(code) : includes(ALPHABET, code[i])

\* What crypto.getRandomValues may leave in the array of a default-length
\* call, as drawn in the model: the vectors of 0s and of 57s give the same
\* code, the third one another code.
RandomArrays ==
    {[i \in 1..DefaultLength |-> 0],
     [i \in 1..DefaultLength |-> 57],
     [i \in 1..DefaultLength |-> 256 - i]}

\* The codes a request may carry: the ones createRoom can have stored.
RequestCodes == {generateRoomCode(a) : a \in RandomArrays}

\* The inputs of the services on their own: every array of zeros with one
\* element replaced by a byte at an edge of a run of the alphabet (0, 56,
\* 57, 113, 114, 227, 228) or by the largest byte; every string of up to MaxCodeLen characters of the alphabet's first and
\* last character; and every such string of the valid length with one
\* character replaced by one that is not in the alphabet.
MaxCodeLen == 9
ByteSamples == {0, 56, 57, 113, 114, 227, 228, 255}
GoodChars == {"2", "Z"}
BadChars == {"0", "O", "1", "I", "l", " ", "_", "undefined"}
ArrayInputs ==
    {[a EXCEPT ![i] = b] :
        a \in [1..DefaultLength -> {0}], i \in 1..DefaultLength, b \in ByteSamples}
WellFormedInputs == UNION {[1..n -> GoodChars] : n \in 0..MaxCodeLen}
CodeInputs ==
    WellFormedInputs
       \cup {[s EXCEPT ![i] = c] :
               s \in [1..ValidLength -> {"2"}], i \in 1..ValidLength, c \in BadChars}

\* The alphabet of generateRoomId (drop/server, roomService.ts): the
\* argument of customAlphabet.
ROOM_ID_ALPHABET ==
    <<"0", "1", "2", "3", "4", "5", "6", "7", "8", "9",
      "A", "B", "C", "D", "E", "F", "G", "H", "J", "K", "M", "N", "P", "Q",
      "R", "S", "T", "V", "W", "X", "Y", "Z",
      "a", "b", "c", "d", "e", "f", "g", "h", "j", "k", "m", "n", "p", "q",
      "r", "s", "t", "v", "w", "x", "y", "z">>

\* The size given to customAlphabet.
RoomIdLength == 12

\* customAlphabet keeps of each random byte the bits of its mask, the
\* smallest 2^n - 1 that covers the alphabet.
RoomIdMask == 63

RECURSIVE customAlphabetTake(_, _, _)
\* customAlphabet(alphabet, size)(): id += alphabet[byte & mask] || '' over
\* the random bytes until the id has size characters.
customAlphabetTake(alphabet, size, bytes) ==
    IF size = 0 \/ bytes = <<>> THEN <<>>
    ELSE LET c == charAt(alphabet, Head(bytes) % (RoomIdMask + 1)) IN
         IF c = "undefined"
         THEN customAlphabetTake(alphabet, size, Tail(bytes))
         ELSE <<c>> \o customAlphabetTake(alphabet, size - 1, Tail(bytes))

generateRoomId(bytes) ==
    customAlphabetTake(ROOM_ID_ALPHABET, RoomIdLength, bytes)

\* The random bytes of a generateRoomId call, as drawn in the model: bytes
\* that select the first character, with one byte replaced by one at an
\* edge of the alphabet or of the mask; one byte more than the size, for
\* the byte that may be skipped.
RoomIdByteSamples == {0, 1, 53, 54, 63, 64, 255}
RoomIdInputs ==
    {[a EXCEPT ![i] = b] :
        a \in [1..(RoomIdLength + 1) -> {2}],
        i \in 1..(RoomIdLength + 1), b \in RoomIdByteSamples}

----------------------------------------------------------------------------
\* The Next.js prototype: database and upload directory.

\* MAX_ROOM_SIZE_BYTES = 50 MB; sizes are counted in units of 25 MB.
MAX_ROOM_SIZE_BYTES == 2

\* The characters [a-zA-Z0-9.-] that saveFile keeps.
SafeChars ==
    {"a", "b", "c", "d", "e", "f", "g", "h", "i", "j", "k", "l", "m", "n",
     "o", "p", "q", "r", "s", "t", "u", "v", "w", "x", "y", "z",
     "A", "B", "C", "D", "E", "F", "G", "H", "I", "J", "K", "L", "M", "N",
     "O", "P", "Q", "R", "S", "T", "U", "V", "W", "X", "Y", "Z",
     "0", "1", "2", "3", "4", "5", "6", "7", "8", "9", ".", "-"}

\* file.name.replace(/[^a-zA-Z0-9.-]/g, '_')
sanitize(name) ==
    [i \in 1..Len(name) |-> IF name[i] \in SafeChars THEN name[i] ELSE "_"]

\* `${Date.now()}-${sanitizedOriginal}`
fileNameOf(t, file) == <<t, sanitize(file.name)>>

\* The files a request may carry: name, bytes (one element per unit of
\* size).  The two names differ and sanitize to the same name.
NoFile == [name |-> <<>>, bytes |-> <<>>]
Files ==
    {[name |-> <<"a", " ">>, bytes |-> <<1>>],
     [name |-> <<"a", "?">>, bytes |-> <<2, 2>>]}

sizeOf(file) == Len(file.bytes)

NoName == <<>>
NoUuid == 0
MaxUuid == MaxWebRooms + MaxUploads

\* crypto.randomUUID(): an id not used before.  The model draws the ids in
\* descending order: items of equal createdAt, which unshift keeps newest
\* first, then stand in ascending order of id.
randomUUID == MaxUuid - (Len(dbCache.rooms) + Len(dbCache.contentItems))

\* DB.getRoom: db.rooms.find(r => r.code === code) || null.
DB_getRoom(code) ==
    LET hits == {i \in 1..Len(dbCache.rooms) : dbCache.rooms[i].code = code}
    IN  IF hits = {}
        THEN [found |-> FALSE, id |-> NoUuid]
        ELSE [found |-> TRUE,
              id |-> dbCache.rooms[CHOOSE i \in hits : \A j \in hits : i <= j].id]

\* DB.getRoomContent: db.contentItems.filter(i => i.roomId === roomId).
DB_getRoomContent(roomId) ==
    SelectSeq(dbCache.contentItems, LAMBDA i : i.roomId = roomId)

RECURSIVE sumSizes(_)
\* currentItems.reduce((acc, item) => acc + (item.size || 0), 0)
sumSizes(seq) ==
    IF seq = <<>> THEN 0 ELSE Head(seq).size + sumSizes(Tail(seq))

WBlank ==
    [pc |-> "idle", op |-> "none", code |-> <<>>, room |-> NoUuid,
     file |-> NoFile, usage |-> 0, filename |-> NoName, item |-> NoUuid,
     snapshot |-> <<>>]

NoAnswer ==
    [op |-> "none", res |-> "none", code |-> <<>>, room |-> NoUuid,
     item |-> NoUuid, items |-> <<>>, mode |-> "none",
     read |-> FALSE, write |-> FALSE, valid |-> FALSE]

SetHandler(h, rec) == handler' = [handler EXCEPT ![h] = rec]

\* Handler h goes on to its next await.
Await(h, rec) == SetHandler(h, rec) /\ answer' = NoAnswer

\* Handler h answers its request.
Respond(h, ans) == SetHandler(h, WBlank) /\ answer' = ans

coreVars == <<rooms, items, blobs, nextRoom, nextId, proc, reply>>

\* The prototype after its first ensureDb on an empty data directory.
WebStart ==
    /\ dbCache = [rooms |-> <<>>, contentItems |-> <<>>]
    /\ dbFile = [rooms |-> <<>>, contentItems |-> <<>>]
    /\ uploads = <<>>
    /\ accessMode = [id \in 1..MaxUuid |-> FULL_ACCESS]
    /\ handler = [h \in Handlers |-> WBlank]
    /\ answer = NoAnswer

----------------------------------------------------------------------------
\* The database as found at start-up: either empty or holding one room
\* created earlier by createRoom, whose isPinned column (default false) may
\* have been set.
Init ==
    /\ now = 0
    /\ \E n \in 0..1, pinned \in BOOLEAN :
          /\ rooms = [r \in 1..n |->
                        [createdAt |-> 0, expiresAt |-> ttlDays, isPinned |-> pinned]]
          /\ nextRoom = n + 1
    /\ items = {}
    /\ blobs = {}
    /\ nextId = 1
    /\ proc = [p \in Procs |-> Blank]
    /\ reply = NoReply
    /\ WebStart

\* Time passes.
Tick ==
    /\ now < MaxTime
    /\ now' = now + 1
    /\ reply' = NoReply
    /\ UNCHANGED <<rooms, items, blobs, nextRoom, nextId, proc, webVars>>

\* RoomService.createRoom: one prisma.room.create; a drawn id that is
\* already a row violates Room_pkey and the create throws.
createRoom(p) ==
    /\ proc[p].pc = "idle"
    /\ nextRoom <= MaxRooms
    /\ \E id \in DOMAIN rooms \cup {nextRoom} :
          /\ IF id \in DOMAIN rooms
             THEN /\ reply' = [NoReply EXCEPT !.op = "createRoom",
                                              !.res = "PkViolation"]
                  /\ UNCHANGED <<rooms, nextRoom>>
             ELSE /\ rooms' = rooms @@ (id :> [createdAt |-> now,
                                               expiresAt |-> now + ttlDays,
                                               isPinned |-> FALSE])
                  /\ nextRoom' = nextRoom + 1
                  /\ reply' = [NoReply EXCEPT !.op = "createRoom",
                                              !.res = "created", !.room = id]
    /\ UNCHANGED <<now, items, blobs, nextId, proc, webVars>>

----------------------------------------------------------------------------
\* RoomService.createTextItem(roomId, ...): isRoomValid, count, create.

\* await this.isRoomValid(roomId); throws 'Room not found or expired'.
ctiValid(p) ==
    /\ proc[p].pc = "idle"
    /\ nextId + Cardinality(PendingPuts) <= MaxPuts
    /\ \E r \in 1..MaxRooms :
          LET me == [Blank EXCEPT !.op = "createTextItem", !.room = r] IN
          IF isRoomValid(r)
          THEN Continue(p, [me EXCEPT !.pc = "cti_count"])
          ELSE /\ reply' = [NoReply EXCEPT !.op = me.op, !.room = r,
                                           !.res = "RoomNotFound"]
               /\ UNCHANGED proc
    /\ UNCHANGED <<now, rooms, items, blobs, nextRoom, nextId, webVars>>

\* await prisma.roomItem.count(...); throws 'Room item limit reached'.
ctiCount(p) ==
    /\ proc[p].pc = "cti_count"
    /\ IF itemLimitReached(proc[p].room)
       THEN Return(p, "RoomFull")
       ELSE Continue(p, [proc[p] EXCEPT !.pc = "cti_create"])
    /\ UNCHANGED <<now, rooms, items, blobs, nextRoom, nextId, webVars>>

\* await prisma.roomItem.create(...): the row gets a fresh id and
\* createdAt = now(), unless the foreign key rejects it.
ctiCreate(p) ==
    /\ proc[p].pc = "cti_create"
    /\ IF roomItemCreateAllowed(proc[p].room)
       THEN /\ items' = items \cup {[id |-> nextId,
                                     roomId |-> proc[p].room,
                                     fileKey |-> NoKey,
                                     createdAt |-> now]}
            /\ nextId' = nextId + 1
            /\ Return(p, "ok")
       ELSE /\ Return(p, "FkViolation")
            /\ UNCHANGED <<items, nextId>>
    /\ UNCHANGED <<now, rooms, blobs, nextRoom, webVars>>

----------------------------------------------------------------------------
\* RoomService.createFileItem(roomId, ...): isRoomValid, count, upload,
\* create.

cfiValid(p) ==
    /\ proc[p].pc = "idle"
    /\ nextId + Cardinality(PendingPuts) <= MaxPuts
    /\ \E r \in 1..MaxRooms :
          LET me == [Blank EXCEPT !.op = "createFileItem", !.room = r] IN
          IF isRoomValid(r)
          THEN Continue(p, [me EXCEPT !.pc = "cfi_count"])
          ELSE /\ reply' = [NoReply EXCEPT !.op = me.op, !.room = r,
                                           !.res = "RoomNotFound"]
               /\ UNCHANGED proc
    /\ UNCHANGED <<now, rooms, items, blobs, nextRoom, nextId, webVars>>

\* The count, and on success the file key `${roomId}/${nanoid()}.${ext}`.
cfiCount(p) ==
    /\ proc[p].pc = "cfi_count"
    /\ IF itemLimitReached(proc[p].room)
       THEN Return(p, "RoomFull") /\ UNCHANGED nextId
       ELSE /\ Continue(p, [proc[p] EXCEPT !.pc = "cfi_upload",
                                           !.item = nextId,
                                           !.key = <<proc[p].room, nextId>>])
            /\ nextId' = nextId + 1
    /\ UNCHANGED <<now, rooms, items, blobs, nextRoom, webVars>>

\* await storage.upload(fileKey, buffer, mimeType) succeeds.
cfiUploadOk(p) ==
    /\ proc[p].pc = "cfi_upload"
    /\ blobs' = storageUpload(proc[p].key)
    /\ Continue(p, [proc[p] EXCEPT !.pc = "cfi_create"])
    /\ UNCHANGED <<now, rooms, items, nextRoom, nextId, webVars>>

\* Variant: the rejection caught and logged, as deleteItem does for
\* storage.delete, and the handler going on to the create.
cfiUploadFails_Swallowed(p) ==
    /\ proc[p].pc = "cfi_upload"
    /\ Continue(p, [proc[p] EXCEPT !.pc = "cfi_create"])
    /\ UNCHANGED <<now, rooms, items, blobs, nextRoom, nextId, webVars>>

\* await storage.upload(...) throws: createFileItem rethrows, nothing is
\* written.
cfiUploadFails(p) ==
    /\ proc[p].pc = "cfi_upload"
    /\ Return(p, "StorageError")
    /\ UNCHANGED <<now, rooms, items, blobs, nextRoom, nextId, webVars>>

\* await prisma.roomItem.create(...) with the fileKey.
cfiCreate(p) ==
    /\ proc[p].pc = "cfi_create"
    /\ IF roomItemCreateAllowed(proc[p].room)
       THEN /\ items' = items \cup {[id |-> proc[p].item,
                                     roomId |-> proc[p].room,
                                     fileKey |-> proc[p].key,
                                     createdAt |-> now]}
            /\ Return(p, "ok")
       ELSE /\ Return(p, "FkViolation")
            /\ UNCHANGED items
    /\ UNCHANGED <<now, rooms, blobs, nextRoom, nextId, webVars>>

\* A write to the database fails (connection lost, timeout): the handler
\* throws with nothing written.
dbWriteFails(p) ==
    /\ proc[p].pc \in {"cti_create", "cfi_create", "di_db"}
    /\ Return(p, "DbError")
    /\ UNCHANGED <<now, rooms, items, blobs, nextRoom, nextId, webVars>>

----------------------------------------------------------------------------
\* RoomService.deleteItem(itemId): findUnique, storage.delete, delete.

deleteItemFind(p) ==
    /\ proc[p].pc = "idle"
    /\ \E id \in 1..MaxPuts :
          LET rows == {i \in items : i.id = id} IN
          IF rows = {}
          THEN /\ reply' = [NoReply EXCEPT !.op = "deleteItem",
                                           !.res = "ItemNotFound"]
               /\ UNCHANGED proc
          ELSE LET item == CHOOSE i \in rows : TRUE IN
               Continue(p, [Blank EXCEPT
                              !.pc = IF item.fileKey # NoKey
                                     THEN "di_storage" ELSE "di_db",
                              !.op = "deleteItem", !.item = id,
                              !.room = item.roomId, !.key = item.fileKey])
    /\ UNCHANGED <<now, rooms, items, blobs, nextRoom, nextId, webVars>>

\* await storage.delete(item.fileKey); a failure is logged and the
\* database deletion continues.
deleteItemStorage(p) ==
    /\ proc[p].pc = "di_storage"
    /\ \/ blobs' = storageDelete(proc[p].key)
       \/ UNCHANGED blobs
    /\ Continue(p, [proc[p] EXCEPT !.pc = "di_db"])
    /\ UNCHANGED <<now, rooms, items, nextRoom, nextId, webVars>>

\* await prisma.roomItem.delete(...): throws when the row is gone.
deleteItemDb(p) ==
    /\ proc[p].pc = "di_db"
    /\ IF \E i \in items : i.id = proc[p].item
       THEN /\ items' = {i \in items : i.id # proc[p].item}
            /\ Return(p, "ok")
       ELSE /\ Return(p, "RowGone")
            /\ UNCHANGED items
    /\ UNCHANGED <<now, rooms, blobs, nextRoom, nextId, webVars>>

----------------------------------------------------------------------------
\* RoomService.deleteRoom(roomId), called by DELETE /api/rooms/:id and, per
\* candidate, by cleanupExpiredRooms.

\* Variant: the try/catch around the loop instead of inside it, so that the
\* first failure ends the run.
AfterDeleteRoom_AbortsOnFailure(p, pr, r, res) ==
    IF pr.op = "cleanup"
    THEN IF res = "ok" /\ pr.cands # {}
         THEN Continue(p, [pr EXCEPT !.pc = "sw_loop", !.room = NoRoom,
                                     !.keys = {}, !.successCount = @ + 1])
         ELSE /\ SetProc(p, Blank)
              /\ reply' = [NoReply EXCEPT
                             !.op = "cleanup", !.res = "swept",
                             !.successCount =
                                 pr.successCount + (IF res = "ok" THEN 1 ELSE 0),
                             !.failCount =
                                 pr.failCount + (IF res = "ok" THEN 0 ELSE 1),
                             !.failed = IF res = "ok" THEN pr.failed
                                        ELSE pr.failed \cup {r}]
    ELSE /\ SetProc(p, Blank)
         /\ reply' = [NoReply EXCEPT !.op = "deleteRoom", !.res = res,
                                     !.room = r]

\* Variant: the catch of the loop logging the failure without failCount++.
AfterDeleteRoom_FailureUncounted(p, pr, r, res) ==
    IF pr.op = "cleanup"
    THEN LET q == [pr EXCEPT
                     !.room = NoRoom, !.keys = {},
                     !.successCount = IF res = "ok" THEN @ + 1 ELSE @,
                     !.failed = IF res = "ok" THEN @ ELSE @ \cup {r}]
         IN  IF q.cands = {}
             THEN /\ SetProc(p, Blank)
                  /\ reply' = [NoReply EXCEPT
                                 !.op = "cleanup", !.res = "swept",
                                 !.successCount = q.successCount,
                                 !.failCount = q.failCount,
                                 !.failed = q.failed]
             ELSE Continue(p, [q EXCEPT !.pc = "sw_loop"])
    ELSE /\ SetProc(p, Blank)
         /\ reply' = [NoReply EXCEPT !.op = "deleteRoom", !.res = res,
                                     !.room = r]

\* What the caller does with the outcome of deleteRoom(r) in handler pr.
\* The route answers (204, or next(error)).  The cleanup loop counts it
\* (successCount++, or failCount++ with 'Failed to delete expired room'
\* logged for r) and goes on to the next candidate, or logs 'Cleanup job
\* completed' after the last.
AfterDeleteRoom(p, pr, r, res) ==
    IF pr.op = "cleanup"
    THEN LET q == [pr EXCEPT
                     !.room = NoRoom, !.keys = {},
                     !.successCount = IF res = "ok" THEN @ + 1 ELSE @,
                     !.failCount = IF res = "ok" THEN @ ELSE @ + 1,
                     !.failed = IF res = "ok" THEN @ ELSE @ \cup {r}]
         IN  IF q.cands = {}
             THEN /\ SetProc(p, Blank)
                  /\ reply' = [NoReply EXCEPT
                                 !.op = "cleanup", !.res = "swept",
                                 !.successCount = q.successCount,
                                 !.failCount = q.failCount,
                                 !.failed = q.failed]
             ELSE Continue(p, [q EXCEPT !.pc = "sw_loop"])
    ELSE /\ SetProc(p, Blank)
         /\ reply' = [NoReply EXCEPT !.op = "deleteRoom", !.res = res,
                                     !.room = r]

\* const result = await this.getRoom(roomId); throws 'Room not found' on
\* null, else keeps the items read.
deleteRoomGet(p, pr, r) ==
    IF getRoom(r).found
    THEN Continue(p, [pr EXCEPT
                        !.pc = IF FileKeysOf(r) = {} THEN "dr_db" ELSE "dr_files",
                        !.room = r, !.keys = FileKeysOf(r)])
    ELSE AfterDeleteRoom(p, pr, r, "RoomNotFound")

\* DELETE /api/rooms/:id
deleteRoom(p) ==
    /\ proc[p].pc = "idle"
    /\ \E r \in 1..MaxRooms :
          deleteRoomGet(p, [Blank EXCEPT !.op = "deleteRoom"], r)
    /\ UNCHANGED <<now, rooms, items, blobs, nextRoom, nextId, webVars>>

\* One turn of the loop over the items read: await storage.delete(fileKey),
\* a failure is logged and the loop goes on.
deleteRoomFile(p) ==
    /\ proc[p].pc = "dr_files"
    /\ \E k \in proc[p].keys :
          /\ \/ blobs' = storageDelete(k)
             \/ UNCHANGED blobs
          /\ Continue(p, [proc[p] EXCEPT
                            !.keys = @ \ {k},
                            !.pc = IF proc[p].keys = {k} THEN "dr_db" ELSE @])
    /\ UNCHANGED <<now, rooms, items, nextRoom, nextId, webVars>>

\* await prisma.room.delete(...): removes the room row and, by the cascade,
\* its item rows; throws when the row is gone.
deleteRoomDb(p) ==
    /\ proc[p].pc = "dr_db"
    /\ LET r == proc[p].room IN
       IF r \in DOMAIN rooms
       THEN /\ rooms' = roomsWithout(r)
            /\ items' = itemsAfterRoomDelete(r)
            /\ AfterDeleteRoom(p, proc[p], r, "ok")
       ELSE /\ AfterDeleteRoom(p, proc[p], r, "RowGone")
            /\ UNCHANGED <<rooms, items>>
    /\ UNCHANGED <<now, blobs, nextRoom, nextId, webVars>>

\* prisma.room.delete fails for another reason (connection lost, timeout).
deleteRoomDbFails(p) ==
    /\ proc[p].pc = "dr_db"
    /\ AfterDeleteRoom(p, proc[p], proc[p].room, "DbError")
    /\ UNCHANGED <<now, rooms, items, blobs, nextRoom, nextId, webVars>>

----------------------------------------------------------------------------
\* cleanupExpiredRooms, started by the cron schedule whether or not an
\* earlier run has finished.

\* The candidate query.
cleanupQuery(p) ==
    /\ proc[p].pc = "idle"
    /\ LET found == expiredRooms IN
       IF found = {}
       THEN /\ reply' = [NoReply EXCEPT !.op = "cleanup", !.res = "swept"]
            /\ UNCHANGED proc
       ELSE Continue(p, [Blank EXCEPT !.pc = "sw_loop", !.op = "cleanup",
                                      !.startTime = now, !.cands = found])
    /\ UNCHANGED <<now, rooms, items, blobs, nextRoom, nextId, webVars>>

\* The candidate query rejects: the outer catch logs 'Cleanup job failed'
\* and the run returns without having attempted a room.
cleanupQueryFails(p) ==
    /\ proc[p].pc = "idle"
    /\ reply' = [NoReply EXCEPT !.op = "cleanup", !.res = "failed"]
    /\ UNCHANGED <<now, rooms, items, blobs, nextRoom, nextId, proc, webVars>>

\* for (const room of expiredRooms) { try { await deleteRoom(room.id) ...:
\* the next candidate, up to the first await of deleteRoom.
cleanupNext(p) ==
    /\ proc[p].pc = "sw_loop"
    /\ \E r \in proc[p].cands :
          deleteRoomGet(p, [proc[p] EXCEPT !.cands = @ \ {r}], r)
    /\ UNCHANGED <<now, rooms, items, blobs, nextRoom, nextId, webVars>>

----------------------------------------------------------------------------
\* The Next.js prototype: the server action createRoom and saveDb.

\* Uploads that have found their room and have not added their item yet.
PendingUploads ==
    {h \in Handlers : handler[h].pc \in {"up_check", "up_name", "up_write", "up_add"}}

\* Time passes for the prototype (Date.now(), new Date()).
WebTick ==
    /\ now < MaxWebTime
    /\ now' = now + 1
    /\ UNCHANGED <<coreVars, webVars>>

\* createRoom of app/actions.ts up to the await saveDb() of DB.createRoom:
\* generateRoomCode(), then db.rooms.push(room).
webCreateRoom(h) ==
    /\ handler[h].pc = "idle"
    /\ Len(dbCache.rooms) < MaxWebRooms
    /\ \E array \in RandomArrays :
          LET code == generateRoomCode(array)
              room == [id |-> randomUUID, code |-> code, expiresAt |-> "null"]
          IN  /\ dbCache' = [dbCache EXCEPT !.rooms = Append(@, room)]
              /\ Await(h, [WBlank EXCEPT !.pc = "save_mkdir",
                                         !.op = "createRoom",
                                         !.code = code, !.room = room.id])
    /\ UNCHANGED <<now, coreVars, dbFile, uploads, accessMode>>

\* saveDb after its await mkdir: JSON.stringify(dbCache) is taken and
\* writeFile is started.
saveDbStringify(h) ==
    /\ handler[h].pc = "save_mkdir"
    /\ Await(h, [handler[h] EXCEPT !.pc = "save_write", !.snapshot = dbCache])
    /\ UNCHANGED <<now, coreVars, dbCache, dbFile, uploads, accessMode>>

\* What the caller of DB.createRoom or DB.addContent answers once saveDb
\* has returned: redirect(`/${code}`), or NextResponse.json(newItem).
AfterSaveDb(h) ==
    Respond(h, [NoAnswer EXCEPT
                  !.op = handler[h].op,
                  !.res = IF handler[h].op = "createRoom" THEN "redirect" ELSE "200",
                  !.code = handler[h].code, !.room = handler[h].room,
                  !.item = handler[h].item])

\* writeFile(DB_PATH, ...) completes.
saveDbWrite(h) ==
    /\ handler[h].pc = "save_write"
    /\ dbFile' = handler[h].snapshot
    /\ AfterSaveDb(h)
    /\ UNCHANGED <<now, coreVars, dbCache, uploads, accessMode>>

\* mkdir or writeFile throws: saveDb logs "Failed to save DB" and returns.
saveDbFails(h) ==
    /\ handler[h].pc \in {"save_mkdir", "save_write"}
    /\ AfterSaveDb(h)
    /\ UNCHANGED <<now, coreVars, dbCache, dbFile, uploads, accessMode>>

----------------------------------------------------------------------------
\* POST /api/room/[code]/upload

\* const room = await DB.getRoom(code); 404 when null.
uploadGetRoom(h) ==
    /\ handler[h].pc = "idle"
    /\ Len(dbCache.contentItems) + Cardinality(PendingUploads) < MaxUploads
    /\ \E code \in RequestCodes, file \in Files \cup {NoFile} :
          LET room == DB_getRoom(code)
              me == [WBlank EXCEPT !.op = "upload", !.code = code,
                                   !.room = room.id, !.file = file]
          IN  IF room.found
              THEN Await(h, [me EXCEPT !.pc = "up_check"])
              ELSE /\ answer' = [NoAnswer EXCEPT !.op = "upload",
                                                 !.res = "404", !.code = code]
                   /\ UNCHANGED handler
    /\ UNCHANGED <<now, coreVars, dbCache, dbFile, uploads, accessMode>>

\* await DB.getRoomContent(room.id), the usage, await request.formData()
\* and the three rejections: 413, 400, 413.
uploadCheck(h) ==
    /\ handler[h].pc = "up_check"
    /\ LET currentUsage == sumSizes(DB_getRoomContent(handler[h].room))
           file == handler[h].file
           rejected(res) ==
               Respond(h, [NoAnswer EXCEPT !.op = "upload", !.res = res,
                                           !.code = handler[h].code,
                                           !.room = handler[h].room])
       IN  IF currentUsage >= MAX_ROOM_SIZE_BYTES THEN rejected("413")
           ELSE IF file = NoFile THEN rejected("400")
           ELSE IF currentUsage + sizeOf(file) > MAX_ROOM_SIZE_BYTES
                THEN rejected("413")
           ELSE Await(h, [handler[h] EXCEPT !.pc = "up_name",
                                            !.usage = currentUsage])
    /\ UNCHANGED <<now, coreVars, dbCache, dbFile, uploads, accessMode>>

\* saveFile after await file.arrayBuffer() and await mkdir: the filename
\* is made from Date.now() and writeFile is started.
saveFileName(h) ==
    /\ handler[h].pc = "up_name"
    /\ Await(h, [handler[h] EXCEPT
                   !.pc = "up_write",
                   !.filename = fileNameOf(now, handler[h].file)])
    /\ UNCHANGED <<now, coreVars, dbCache, dbFile, uploads, accessMode>>

\* await writeFile(path, buffer) completes: the file at path holds buffer.
saveFileWrite(h) ==
    /\ handler[h].pc = "up_write"
    /\ uploads' = (handler[h].filename :> handler[h].file.bytes) @@ uploads
    /\ Await(h, [handler[h] EXCEPT !.pc = "up_add"])
    /\ UNCHANGED <<now, coreVars, dbCache, dbFile, accessMode>>

\* await writeFile(path, buffer) throws; the route catches nothing.
saveFileWriteFails(h) ==
    /\ handler[h].pc = "up_write"
    /\ Respond(h, [NoAnswer EXCEPT !.op = "upload", !.res = "500",
                                   !.code = handler[h].code,
                                   !.room = handler[h].room])
    /\ UNCHANGED <<now, coreVars, dbCache, dbFile, uploads, accessMode>>

\* DB.addContent({...}) up to its await saveDb():
\* db.contentItems.unshift(item).
addContent(h) ==
    /\ handler[h].pc = "up_add"
    /\ LET item == [id |-> randomUUID, roomId |-> handler[h].room,
                    content |-> handler[h].filename,
                    size |-> sizeOf(handler[h].file),
                    createdAt |-> now]
       IN  /\ dbCache' = [dbCache EXCEPT !.contentItems = <<item>> \o @]
           /\ Await(h, [handler[h] EXCEPT !.pc = "save_mkdir",
                                          !.item = item.id])
    /\ UNCHANGED <<now, coreVars, dbFile, uploads, accessMode>>

----------------------------------------------------------------------------
\* GET /api/room/[code]

\* const room = await DB.getRoom(code); 404 when null.
routeGetRoom(h) ==
    /\ handler[h].pc = "idle"
    /\ \E code \in RequestCodes :
          LET room == DB_getRoom(code) IN
          IF room.found
          THEN Await(h, [WBlank EXCEPT !.pc = "get_content", !.op = "getRoom",
                                       !.code = code, !.room = room.id])
          ELSE /\ answer' = [NoAnswer EXCEPT !.op = "getRoom", !.res = "404",
                                             !.code = code]
               /\ UNCHANGED handler
    /\ UNCHANGED <<now, coreVars, dbCache, dbFile, uploads, accessMode>>

\* const items = await DB.getRoomContent(room.id); return { room, items }.
routeGetContent(h) ==
    /\ handler[h].pc = "get_content"
    /\ Respond(h, [NoAnswer EXCEPT
                     !.op = "getRoom", !.res = "200",
                     !.code = handler[h].code, !.room = handler[h].room,
                     !.items = DB_getRoomContent(handler[h].room)])
    /\ UNCHANGED <<now, coreVars, dbCache, dbFile, uploads, accessMode>>

----------------------------------------------------------------------------
\* setAccessMode(code, mode) of the Room Registry: the mode of the room is
\* replaced; the next operation sees it.
setAccessMode ==
    /\ \E code \in RequestCodes, mode \in AccessModes :
          LET room == DB_getRoom(code) IN
          /\ room.found
          /\ accessMode[room.id] # mode
          /\ accessMode' = [accessMode EXCEPT ![room.id] = mode]
    /\ answer' = NoAnswer
    /\ UNCHANGED <<now, coreVars, dbCache, dbFile, uploads, handler>>

\* A caller of canRead and canWrite (the test 'AccessMode permissions are
\* correct' calls them on each mode).
evaluateAccess ==
    /\ \E mode \in AccessModes :
          answer' = [NoAnswer EXCEPT !.op = "access", !.mode = mode,
                                     !.read = canRead(mode),
                                     !.write = canWrite(mode)]
    /\ UNCHANGED <<now, coreVars, dbCache, dbFile, uploads, accessMode, handler>>

\* A caller of generateRoomCode with the default length (the test 'should
\* generate valid room codes of length 8' checks each code it generates).
generateCode ==
    /\ \E array \in ArrayInputs :
          LET code == generateRoomCode(array) IN
          answer' = [NoAnswer EXCEPT !.op = "generateRoomCode", !.code = code,
                                     !.valid = isValidRoomCode(code)]
    /\ UNCHANGED <<now, coreVars, dbCache, dbFile, uploads, accessMode, handler>>

\* A caller of isValidRoomCode.
validateRoomCode ==
    /\ \E code \in CodeInputs :
          answer' = [NoAnswer EXCEPT !.op = "isValidRoomCode", !.code = code,
                                     !.valid = isValidRoomCode(code)]
    /\ UNCHANGED <<now, coreVars, dbCache, dbFile, uploads, accessMode, handler>>

\* A caller of generateRoomId (RoomService.createRoom draws each room id
\* with it).
generateId ==
    /\ \E bytes \in RoomIdInputs :
          answer' = [NoAnswer EXCEPT !.op = "generateRoomId",
                                     !.code = generateRoomId(bytes)]
    /\ UNCHANGED <<now, coreVars, dbCache, dbFile, uploads, accessMode, handler>>

----------------------------------------------------------------------------
\* The join form of the home page (app/page.tsx) and the room page
\* (app/[roomCode]/page.tsx).

LowerCase ==
    <<"a", "b", "c", "d", "e", "f", "g", "h", "i", "j", "k", "l", "m", "n",
      "o", "p", "q", "r", "s", "t", "u", "v", "w", "x", "y", "z">>
UpperCase ==
    <<"A", "B", "C", "D", "E", "F", "G", "H", "I", "J", "K", "L", "M", "N",
      "O", "P", "Q", "R", "S", "T", "U", "V", "W", "X", "Y", "Z">>

\* String.prototype.toUpperCase on the characters of the model.
toUpperCase(str) ==
    [i \in 1..Len(str) |->
        IF \E j \in 1..Len(LowerCase) : LowerCase[j] = str[i]
        THEN UpperCase[CHOOSE j \in 1..Len(LowerCase) : LowerCase[j] = str[i]]
        ELSE str[i]]

\* maxLength of the code input.
JoinMaxLength == 8

\* The value of the code input after typed has been entered:
\* onChange={(e) => setCode(e.target.value.toUpperCase())}, at most
\* maxLength characters.
codeInput(typed) ==
    toUpperCase(SubSeq(typed, 1, IF Len(typed) < JoinMaxLength
                                  THEN Len(typed) ELSE JoinMaxLength))

\* A visitor types a code and submits: handleJoin calls navigateToRoom with
\* the input's value when it is not empty, which redirects to `/${code}`;
\* RoomPage looks the code up with DB.getRoom and answers notFound() on
\* null.
joinRoom ==
    /\ \E typed \in RequestCodes :
          LET code == codeInput(typed)
              room == DB_getRoom(code)
          IN  /\ code # <<>>
              /\ answer' = [NoAnswer EXCEPT
                              !.op = "join", !.code = typed,
                              !.res = IF room.found THEN "200" ELSE "404",
                              !.room = room.id]
    /\ UNCHANGED <<now, coreVars, dbCache, dbFile, uploads, accessMode, handler>>

----------------------------------------------------------------------------
Next ==
    \/ Tick
    \/ \E p \in Procs :
          \/ createRoom(p)
          \/ ctiValid(p) \/ ctiCount(p) \/ ctiCreate(p)
          \/ cfiValid(p) \/ cfiCount(p) \/ cfiUploadOk(p) \/ cfiUploadFails(p)
          \/ cfiCreate(p)
          \/ dbWriteFails(p)
          \/ deleteItemFind(p) \/ deleteItemStorage(p) \/ deleteItemDb(p)
          \/ deleteRoom(p) \/ deleteRoomFile(p) \/ deleteRoomDb(p)
          \/ deleteRoomDbFails(p)
          \/ cleanupQuery(p) \/ cleanupQueryFails(p) \/ cleanupNext(p)

Spec == Init /\ [][Next]_vars

----------------------------------------------------------------------------
\* The server under its scheduler: file puts and cleanup runs, where every
\* await of a handler in flight resolves (the event loop runs it on), the
\* clock goes on, the cron schedule keeps starting cleanup runs, and the
\* failures of the database and of the blob store are transient (an
\* operation that is attempted again and again succeeds at some attempt).

\* A step of handler p that is in flight.
Resolve(p) ==
    \/ cfiCount(p) \/ cfiUploadOk(p) \/ cfiUploadFails(p) \/ cfiCreate(p)
    \/ dbWriteFails(p)
    \/ deleteRoomFile(p) \/ deleteRoomDb(p) \/ deleteRoomDbFails(p)
    \/ cleanupNext(p)

NextLive ==
    \/ Tick
    \/ \E p \in Procs :
          \/ cfiValid(p) \/ cfiCount(p) \/ cfiUploadOk(p) \/ cfiUploadFails(p)
          \/ cfiCreate(p)
          \/ dbWriteFails(p)
          \/ deleteRoomFile(p) \/ deleteRoomDb(p) \/ deleteRoomDbFails(p)
          \/ cleanupQuery(p) \/ cleanupQueryFails(p) \/ cleanupNext(p)

Fairness ==
    /\ WF_vars(Tick)
    /\ SF_vars(\E p \in Procs : cleanupQuery(p))
    /\ \A p \in Procs :
          /\ WF_vars(Resolve(p))
          /\ SF_vars(cfiUploadOk(p))
          /\ SF_vars(cfiCreate(p))
          /\ SF_vars(deleteRoomFile(p) /\ blobs' # blobs)
          /\ SF_vars(deleteRoomDb(p))

SpecLive == Init /\ [][NextLive]_vars /\ Fairness

\* The cleanup runs on their own, under the same scheduler, with the
\* database as found after two createRoom calls at time 0 (each room pinned
\* or not) and one createFileItem to room 1.
InitSweep ==
    /\ now = 0
    /\ \E pinned \in [1..MaxRooms -> BOOLEAN] :
          rooms = [r \in 1..MaxRooms |->
                     [createdAt |-> 0, expiresAt |-> ttlDays,
                      isPinned |-> pinned[r]]]
    /\ nextRoom = MaxRooms + 1
    /\ items = {[id |-> 1, roomId |-> 1, fileKey |-> <<1, 1>>, createdAt |-> 0]}
    /\ blobs = {<<1, 1>>}
    /\ nextId = 2
    /\ proc = [p \in Procs |-> Blank]
    /\ reply = NoReply
    /\ WebStart

NextSweep ==
    \/ Tick
    \/ \E p \in Procs :
          \/ deleteRoomFile(p) \/ deleteRoomDb(p) \/ deleteRoomDbFails(p)
          \/ cleanupQuery(p) \/ cleanupQueryFails(p) \/ cleanupNext(p)

\* Every await of a cleanup run in flight resolves.
SweepFairness == \A p \in Procs : WF_vars(Resolve(p))

SpecSweep == InitSweep /\ [][NextSweep]_vars /\ SweepFairness

----------------------------------------------------------------------------
\* The prototype on its own: the server's tables stay empty.
InitWeb ==
    /\ now = 0
    /\ rooms = <<>>
    /\ items = {}
    /\ blobs = {}
    /\ nextRoom = 1
    /\ nextId = 1
    /\ proc = [p \in Procs |-> Blank]
    /\ reply = NoReply
    /\ WebStart

NextWeb ==
    \/ WebTick
    \/ \E h \in Handlers :
          \/ webCreateRoom(h)
          \/ saveDbStringify(h) \/ saveDbWrite(h) \/ saveDbFails(h)
          \/ uploadGetRoom(h) \/ uploadCheck(h)
          \/ saveFileName(h) \/ saveFileWrite(h) \/ saveFileWriteFails(h)
          \/ addContent(h)
          \/ routeGetRoom(h) \/ routeGetContent(h)

SpecWeb == InitWeb /\ [][NextWeb]_vars

\* The prototype holding one room, created and saved earlier, whose holder
\* changes its access mode.
InitAccess ==
    /\ now = 0
    /\ rooms = <<>>
    /\ items = {}
    /\ blobs = {}
    /\ nextRoom = 1
    /\ nextId = 1
    /\ proc = [p \in Procs |-> Blank]
    /\ reply = NoReply
    /\ \E code \in RequestCodes :
          /\ dbCache = [rooms |-> <<[id |-> MaxUuid, code |-> code,
                                     expiresAt |-> "null"]>>,
                        contentItems |-> <<>>]
          /\ dbFile = dbCache
    /\ uploads = <<>>
    /\ accessMode = [id \in 1..MaxUuid |-> FULL_ACCESS]
    /\ handler = [h \in Handlers |-> WBlank]
    /\ answer = NoAnswer

NextAccess ==
    \/ WebTick
    \/ setAccessMode
    \/ \E h \in Handlers :
          \/ saveDbStringify(h) \/ saveDbWrite(h) \/ saveDbFails(h)
          \/ uploadGetRoom(h) \/ uploadCheck(h)
          \/ saveFileName(h) \/ saveFileWrite(h) \/ saveFileWriteFails(h)
          \/ addContent(h)
          \/ routeGetRoom(h) \/ routeGetContent(h)

SpecAccess == InitAccess /\ [][NextAccess]_vars

\* The pure functions of web/services on their own.
NextServices ==
    \/ evaluateAccess
    \/ generateCode
    \/ validateRoomCode
    \/ generateId

SpecServices == InitWeb /\ [][NextServices]_vars

\* Creating rooms and joining them by code.
NextJoin ==
    \/ joinRoom
    \/ \E h \in Handlers :
          \/ webCreateRoom(h)
          \/ saveDbStringify(h) \/ saveDbWrite(h) \/ saveDbFails(h)

SpecJoin == InitWeb /\ [][NextJoin]_vars

----------------------------------------------------------------------------
\* Vocabulary of the properties.

\* This step is taken by a cleanup run that is at prisma.room.delete.
CleanupDeleteStep(p) ==
    /\ proc[p].op = "cleanup"
    /\ proc[p].pc = "dr_db"
    /\ proc'[p] # proc[p]

\* The rooms this step removes from the registry.
RoomsRemoved == {r \in DOMAIN rooms : r \notin DOMAIN rooms'}

\* Room r is pinned and its expiresAt lies in the past.
PinnedAndExpired(r) ==
    r \in DOMAIN rooms /\ rooms[r].isPinned /\ rooms[r].expiresAt < now

\* C1. Pinned-room immunity: no step of a cleanup run removes from the
\* registry a room whose isPinned is true, however old its expiresAt.
C1_PinnedRoomImmunity ==
    [][\A p \in Procs : \A r \in RoomsRemoved :
          CleanupDeleteStep(p) => ~rooms[r].isPinned]_vars

\* A cleanup run has just completed and deleted a room, while a pinned room
\* whose expiresAt is in the past is still in the registry.
C1_Witness ==
    /\ reply.op = "cleanup"
    /\ reply.successCount >= 1
    /\ \E r \in DOMAIN rooms : PinnedAndExpired(r)

\* C2. No premature deletion: a room removed by a step of a cleanup run
\* was unpinned with expiresAt strictly before the instant of that run's
\* candidate query, and so strictly before now.
C2_NoPrematureDeletion ==
    [][\A p \in Procs : \A r \in RoomsRemoved :
          CleanupDeleteStep(p) =>
             /\ rooms[r].expiresAt < proc[p].startTime
             /\ rooms[r].expiresAt < now
             /\ rooms[r].isPinned = FALSE]_vars

\* A cleanup run has just completed and deleted a room, while an unpinned
\* room whose expiresAt is not in the past is still in the registry.
C2_Witness ==
    /\ reply.op = "cleanup"
    /\ reply.successCount >= 1
    /\ \E r \in DOMAIN rooms :
          ~rooms[r].isPinned /\ ~(rooms[r].expiresAt < now)

\* The failures this step of cleanup run p records ('Failed to delete
\* expired room'), and the run's successCount after the step.
NewFailures(p) ==
    (IF proc'[p].op = "cleanup" THEN proc'[p].failed ELSE reply'.failed)
       \ proc[p].failed

SuccessCountAfter(p) ==
    IF proc'[p].op = "cleanup" THEN proc'[p].successCount
                               ELSE reply'.successCount

CleanupStep(p) == proc[p].op = "cleanup" /\ proc'[p] # proc[p]

IsPut(op) == op \in {"createTextItem", "createFileItem"}

\* C3. Metadata never references a missing blob: every item row that
\* carries a fileKey refers to a blob present in the blob store.
C3_MetadataNeverReferencesMissingBlob ==
    \A i \in items : i.fileKey # NoKey => i.fileKey \in blobs

\* Another cleanup run, still in flight or completed in the step before,
\* has deleted a room.
OtherRunDeleted(p) ==
    \/ reply.op = "cleanup" /\ reply.successCount >= 1
    \/ \E q \in Procs \ {p} :
          proc[q].op = "cleanup" /\ proc[q].successCount >= 1

\* C4. Reaper idempotency: of two cleanup runs over the same expired room,
\* the one that comes second to the room records no error for it; beside a
\* run that has deleted, a run records a failure only for a room that is
\* still in the registry.
C4_ReaperIdempotency ==
    [][\A p \in Procs :
          (CleanupStep(p) /\ OtherRunDeleted(p))
             => \A r \in NewFailures(p) : r \in DOMAIN rooms]_vars

\* C5. Idempotent room delete: deleteRoom on a room that is not in the
\* registry (already deleted, or never created) returns without error.
C5_IdempotentRoomDelete ==
    (reply.op = "deleteRoom" /\ reply.room \notin DOMAIN rooms)
       => reply.res = "ok"

\* C6. Sweep end state: once a cleanup run, with no other handler in
\* flight, has counted a room as deleted, getRoom reports it not found, no
\* item row of it remains and no blob key under its prefix remains.
C6_SweepEndState ==
    [][\A p \in Procs : \A r \in 1..MaxRooms :
          (/\ CleanupDeleteStep(p)
           /\ \A q \in Procs \ {p} : proc[q].pc = "idle"
           /\ proc[p].room = r
           /\ SuccessCountAfter(p) > proc[p].successCount)
             => /\ ~(getRoom(r).found)'
                /\ (ItemsOf(r))' = {}
                /\ (listAll(r))' = {}]_vars

\* C7. Cascade: every item row's roomId names a room in the registry.
C7_NoContentOutlivesRoom ==
    \A i \in items : i.roomId \in DOMAIN rooms

\* A file put that passed isRoomValid has just been rejected by the foreign
\* key because its room was deleted meanwhile.
C7_Witness ==
    /\ reply.op = "createFileItem"
    /\ reply.res = "FkViolation"
    /\ reply.room \notin DOMAIN rooms

\* C8. Orphan non-creation: when storage.upload fails in createFileItem
\* (the step leaves the key absent from the blob store), the operation
\* fails with the storage error, the item table is unchanged and no row
\* references the key.
C8_OrphanNonCreation ==
    [][\A p \in Procs :
          (/\ proc[p].pc = "cfi_upload"
           /\ proc'[p] # proc[p]
           /\ proc[p].key \notin blobs')
             => /\ proc'[p].pc = "idle"
                /\ reply'.op = "createFileItem"
                /\ reply'.res = "StorageError"
                /\ items' = items
                /\ \A i \in items' : i.fileKey # proc[p].key]_vars

\* createFileItem has just failed on its upload; its key is neither in the
\* blob store nor in any row.
C8_Witness ==
    /\ reply.op = "createFileItem"
    /\ reply.res = "StorageError"
    /\ reply.key \notin blobs
    /\ \A i \in items : i.fileKey # reply.key

\* C9. Put is rejected exactly on dead rooms: a put fails with room-not-found
\* only when the room is absent, or expired and not pinned; a pinned room
\* whose expiresAt is in the past accepts puts.
C9_PutRejectedExactlyOnDeadRooms ==
    (IsPut(reply.op) /\ reply.res = "RoomNotFound")
       => \/ reply.room \notin DOMAIN rooms
          \/ /\ rooms[reply.room].expiresAt < now
             /\ ~rooms[reply.room].isPinned

\* C10. Room-full rejection: a put whose count finds the room at or above
\* maxItemsPerRoom fails with room-full and writes no blob and no row.
C10_RoomFullRejection ==
    [][\A p \in Procs :
          (/\ proc[p].pc \in {"cti_count", "cfi_count"}
           /\ proc'[p] # proc[p]
           /\ Cardinality(ItemsOf(proc[p].room)) >= maxItemsPerRoom)
             => /\ proc'[p].pc = "idle"
                /\ reply'.op = proc[p].op
                /\ reply'.res = "RoomFull"
                /\ items' = items
                /\ blobs' = blobs]_vars

\* A file put has just been rejected as room-full on a room that holds
\* maxItemsPerRoom items or more.
C10_Witness ==
    /\ reply.op = "createFileItem"
    /\ reply.res = "RoomFull"
    /\ Cardinality(ItemsOf(reply.room)) >= maxItemsPerRoom

----------------------------------------------------------------------------
\* Properties of the Next.js prototype.

\* C11. Access-control table: an evaluation of canRead and canWrite on a
\* mode answers FULL_ACCESS -> (allow, allow), READ_ONLY -> (allow, deny),
\* DROP_ONLY -> (deny, allow), and the mode is one of the three.
C11_AccessControlTable ==
    answer.op = "access" =>
       /\ answer.mode \in AccessModes
       /\ answer.mode = FULL_ACCESS => (answer.read /\ answer.write)
       /\ answer.mode = READ_ONLY => (answer.read /\ ~answer.write)
       /\ answer.mode = DROP_ONLY => (~answer.read /\ answer.write)

\* DROP_ONLY has just been evaluated: read denied, write allowed.
C11_Witness ==
    /\ answer.op = "access"
    /\ answer.mode = DROP_ONLY
    /\ ~answer.read
    /\ answer.write

\* The characters of ALPHABET.
AlphabetChars == {ALPHABET[j] : j \in 1..Len(ALPHABET)}

WellFormed(code) ==
    /\ Len(code) = 8
    /\ \A i \in 1..Len(code) : code[i] \in AlphabetChars

\* C15. Generated codes are well-formed: every byte maps to a character of
\* ALPHABET; a code generated with the default length has exactly 8
\* characters, all of ALPHABET, and isValidRoomCode accepts it; and
\* isValidRoomCode accepts a string exactly when its length is 8 and all
\* its characters are in ALPHABET.
C15_GeneratedCodesWellFormed ==
    /\ \A b \in Bytes : generateRoomCode(<<b>>)[1] \in AlphabetChars
    /\ answer.op = "generateRoomCode" =>
          (WellFormed(answer.code) /\ answer.valid)
    /\ answer.op = "isValidRoomCode" =>
          (answer.valid <=> WellFormed(answer.code))

\* A code has just been generated from an array holding the byte 255
\* (255 % 57 = 27, the character "u") and isValidRoomCode accepted it.
C15_Witness ==
    /\ answer.op = "generateRoomCode"
    /\ answer.valid
    /\ \E i \in 1..Len(answer.code) : answer.code[i] = "u"

\* C12. Access mode is enforced: an upload that finds its room goes on,
\* and adds its item, only if the room's current mode permits writing (a
\* READ_ONLY room rejects it and stores nothing); a read that finds its room
\* goes on, and returns items, only if the mode permits reading (a DROP_ONLY
\* room returns none).  The mode consulted is the one in force at that step.
C12_AccessModeEnforced ==
    [][\A h \in Handlers :
          /\ (handler[h].pc = "idle" /\ handler'[h].pc = "up_check")
                => canWrite(accessMode[handler'[h].room])
          /\ (handler[h].pc = "up_add" /\ dbCache' # dbCache)
                => canWrite(accessMode[handler[h].room])
          /\ (handler[h].pc = "idle" /\ handler'[h].pc = "get_content")
                => canRead(accessMode[handler'[h].room])
          /\ (/\ handler[h].pc = "get_content"
              /\ handler'[h].pc = "idle"
              /\ answer'.items # <<>>)
                => canRead(accessMode[handler[h].room])]_vars

\* (createdAt, id) of item a is not after that of item b.
NotAfter(a, b) ==
    \/ a.createdAt < b.createdAt
    \/ a.createdAt = b.createdAt /\ a.id <= b.id

\* C13. Timeline ordering: the items a read of a room returns are sorted
\* ascending by (createdAt, id).
C13_TimelineOrdering ==
    (answer.op = "getRoom" /\ answer.res = "200")
       => \A i, j \in 1..Len(answer.items) :
             i < j => NotAfter(answer.items[i], answer.items[j])

\* C14. Create never overwrites or duplicates a room: after a createRoom
\* has put its room in the registry, no two registry rooms share a code,
\* and every code that named a room before still names that room.
C14_CreateNeverDuplicates ==
    [][\A h \in Handlers :
          (handler[h].pc = "idle" /\ handler'[h].op = "createRoom")
             => /\ \A i, j \in 1..Len(dbCache'.rooms) :
                      i # j => dbCache'.rooms[i].code # dbCache'.rooms[j].code
                /\ \A code \in RequestCodes :
                      DB_getRoom(code).found
                         => /\ DB_getRoom(code)' = DB_getRoom(code)
                            /\ DB_getRoomContent(DB_getRoom(code).id)'
                                  = DB_getRoomContent(DB_getRoom(code).id)]_vars

\* C16. Round-trip integrity: when an upload adds its item, the file at the
\* item's stored path holds the bytes submitted with that upload, and the
\* file at the path of an item already added never changes.
C16_UploadRoundTrip ==
    [][/\ \A h \in Handlers :
             (handler[h].pc = "up_add" /\ handler'[h].pc = "save_mkdir")
                => /\ handler[h].filename \in DOMAIN uploads
                   /\ uploads[handler[h].filename] = handler[h].file.bytes
       /\ \A i \in 1..Len(dbCache.contentItems) :
             LET path == dbCache.contentItems[i].content IN
             path \in DOMAIN uploads
                => (path \in DOMAIN uploads' /\ uploads'[path] = uploads[path])]_vars

\* C17. Soft delete preserves the row: an item row leaves the content
\* store only with its room; as long as the room is in the registry,
\* deleteItem included, a row with the item's id remains.
C17_SoftDeletePreservesRow ==
    [][\A i \in items :
          i.roomId \in DOMAIN rooms' => \E j \in items' : j.id = i.id]_vars

\* This step of cleanup run p is a storage.delete that leaves its blob in
\* the store.
BlobDeleteFailed(p) ==
    /\ proc[p].op = "cleanup"
    /\ proc[p].pc = "dr_files"
    /\ \E k \in proc[p].keys \ proc'[p].keys : k \in blobs'

\* C18. A failed room stays for retry: when a blob delete of a cleanup run
\* fails, the run gives the room up for this sweep (it records the failure
\* and does not go on to the room's rows); and a cleanup run removes a room
\* from the registry only when no blob of the room's item rows is still in
\* the blob store.
C18_FailedRoomStays ==
    [][\A p \in Procs :
          /\ BlobDeleteFailed(p) => NewFailures(p) = {proc[p].room}
          /\ \A r \in RoomsRemoved :
                CleanupDeleteStep(p) => FileKeysOf(r) \cap blobs = {}]_vars

\* The candidates cleanup run p still has to attempt after this step.
CandsAfter(p) == IF proc'[p].op = "cleanup" THEN proc'[p].cands ELSE {}

\* C19. Per-room failure isolation: a step of a cleanup run takes at most
\* one candidate off the run's list, so the run ends only when every
\* candidate has been attempted; when the step records a failure and
\* candidates remain, the run goes on to them with its list unchanged; and a
\* room the step counts as deleted is gone from the registry.
C19_FailureIsolation ==
    [][\A p \in Procs :
          CleanupStep(p) =>
             /\ CandsAfter(p) \subseteq proc[p].cands
             /\ Cardinality(proc[p].cands \ CandsAfter(p)) <= 1
             /\ (proc[p].pc = "sw_loop" /\ proc'[p].pc = "idle")
                   => proc[p].cands = NewFailures(p)
             /\ (NewFailures(p) # {} /\ proc[p].cands \ NewFailures(p) # {})
                   => /\ proc'[p].pc = "sw_loop"
                      /\ proc'[p].cands = proc[p].cands \ NewFailures(p)
             /\ SuccessCountAfter(p) > proc[p].successCount
                   => proc[p].room \notin DOMAIN rooms']_vars

\* A cleanup run that has recorded a failure for one candidate is at the
\* prisma.room.delete of another.
C19_Witness ==
    \E p \in Procs :
       /\ proc[p].op = "cleanup"
       /\ proc[p].pc = "dr_db"
       /\ proc[p].failCount >= 1
       /\ proc[p].room \in DOMAIN rooms
       /\ proc[p].room \notin proc[p].failed

\* Room r is gone: no registry row, no item row, no blob under its prefix.
Gone(r) ==
    /\ r \notin DOMAIN rooms
    /\ ItemsOf(r) = {}
    /\ listAll(r) = {}

\* C20. Convergence to GONE: while cleanup runs keep being scheduled and
\* failures are transient, every room that is expired and unpinned
\* eventually has its registry row, its item rows and all blobs under its
\* prefix removed.
C20_ConvergenceToGone ==
    \A r \in 1..MaxRooms :
       (r \in expiredRooms) ~> Gone(r)

----------------------------------------------------------------------------
\* The file keys the model can draw.
FileKeys == (1..MaxRooms) \X (1..MaxPuts)

\* Key k is an orphan: the blob is in the store, no item row references it
\* and no createFileItem in flight is about to write its row.
Orphan(k) ==
    /\ k \in blobs
    /\ \A i \in items : i.fileKey # k
    /\ \A p \in Procs : ~(proc[p].pc = "cfi_create" /\ proc[p].key = k)

\* C21. Orphaned blobs are eventually removed: a blob that is in the store
\* with no item row referencing it is eventually deleted.
C21_OrphansEventuallyRemoved ==
    \A k \in FileKeys : Orphan(k) ~> (k \notin blobs)

\* Handler h answers its createRoom or upload with success in this step.
AnswersSuccess(h) ==
    /\ handler[h].pc \in {"save_mkdir", "save_write"}
    /\ handler'[h].pc = "idle"
    /\ answer'.res \in {"redirect", "200"}

\* The database file db holds the room, or the item, that handler record
\* rec has added.
HoldsWriteOf(db, rec) ==
    IF rec.op = "createRoom"
    THEN \E i \in 1..Len(db.rooms) : db.rooms[i].id = rec.room
    ELSE \E i \in 1..Len(db.contentItems) : db.contentItems[i].id = rec.item

\* C22. Store failures are not swallowed: a createRoom or an upload is
\* answered with success only when the database file holds its room or
\* item; when saving fails the caller gets an error.
C22_StoreFailuresNotSwallowed ==
    [][\A h \in Handlers :
          AnswersSuccess(h) => HoldsWriteOf(dbFile', handler[h])]_vars

----------------------------------------------------------------------------
\* The responses of routes/rooms.ts: every route answers its success
\* status, or hands what the service threw to errorHandler by next(error).

\* The outcomes that are errors RoomService throws itself.
ServiceErrors == {"RoomNotFound", "RoomFull", "ItemNotFound"}

\* The class of the error object behind a thrown outcome: RoomService
\* throws `new Error(message)`; the errors of prisma and of the blob store
\* are of their libraries' classes.  AppError is thrown by the routes and
\* the validation middleware only.
errorClassOf(res) ==
    IF res \in ServiceErrors THEN "Error"
    ELSE IF res = "StorageError" THEN "StorageError"
    ELSE "PrismaClientKnownRequestError"

\* errorHandler: 500 unless err instanceof AppError, then err.statusCode.
errorHandler(class, statusCode) ==
    IF class = "AppError" THEN statusCode ELSE 500

\* res.status(201) of the creating routes, res.status(204) of the deleting.
successStatus(op) == IF op \in {"deleteItem", "deleteRoom"} THEN 204 ELSE 201

\* The status the route answers for outcome rep of the service.
statusOf(rep) ==
    IF rep.res \in {"ok", "created"} THEN successStatus(rep.op)
    ELSE errorHandler(errorClassOf(rep.res), 500)

\* The operations a route calls.
RouteOps == {"createRoom", "createTextItem", "createFileItem",
             "deleteItem", "deleteRoom"}

\* C23. Error kinds stay distinguishable: a put rejected because its room
\* is missing, expired or full, and a deleteRoom or deleteItem on a missing
\* target, are answered with a 4xx status, never with the 500 of a storage
\* or database failure.
C23_ErrorKindsDistinguishable ==
    (reply.op \in RouteOps /\ reply.res \in ServiceErrors)
       => statusOf(reply) \in 400..499

----------------------------------------------------------------------------
\* C24. Creation defaults: every room createRoom has stored carries a
\* non-null expiresAt, so that no room is permanent without an explicit pin.
C24_CreationDefaults ==
    \A i \in 1..Len(dbCache.rooms) : dbCache.rooms[i].expiresAt # "null"

----------------------------------------------------------------------------
\* The visually ambiguous characters.
Ambiguous == {"0", "O", "1", "I", "l"}

CharsOf(str) == {str[j] : j \in 1..Len(str)}

NoRepeats(str) == \A i, j \in 1..Len(str) : i # j => str[i] # str[j]

\* C25. Ambiguity-free alphabet: a generated room code or room id is drawn
\* from an alphabet without repeated characters and without 0, O, 1, I, l,
\* and contains none of them.
C25_AmbiguityFreeAlphabet ==
    /\ answer.op = "generateRoomCode" =>
          /\ NoRepeats(ALPHABET)
          /\ CharsOf(ALPHABET) \cap Ambiguous = {}
          /\ CharsOf(answer.code) \cap Ambiguous = {}
    /\ answer.op = "generateRoomId" =>
          /\ NoRepeats(ROOM_ID_ALPHABET)
          /\ CharsOf(ROOM_ID_ALPHABET) \cap Ambiguous = {}
          /\ CharsOf(answer.code) \cap Ambiguous = {}

----------------------------------------------------------------------------
\* C26. Item ceiling under concurrency: whatever the interleaving of
\* createTextItem and createFileItem calls, no room has more item rows than
\* maxItemsPerRoom.
C26_ItemCeiling ==
    \A r \in DOMAIN rooms : Cardinality(ItemsOf(r)) <= maxItemsPerRoom

----------------------------------------------------------------------------
\* The ids of the rooms and items database db holds.
IdsIn(db) ==
    {db.rooms[i].id : i \in 1..Len(db.rooms)}
       \cup {db.contentItems[i].id : i \in 1..Len(db.contentItems)}

\* The ids whose DB.createRoom or DB.addContent has not returned yet.
IdsInFlight ==
    {handler[h].room : h \in {g \in Handlers : handler[g].op = "createRoom"}}
       \cup {handler[h].item : h \in {g \in Handlers : handler[g].op = "upload"}}

\* C27. No lost write in the JSON database: a room or item whose
\* DB.createRoom or DB.addContent has returned and that the saved file
\* holds is held by the file, and by the cache, ever after.
C27_NoLostWrite ==
    [][\A id \in IdsIn(dbFile) \ IdsInFlight :
          id \in IdsIn(dbFile') /\ id \in IdsIn(dbCache')]_vars

----------------------------------------------------------------------------
\* C28. Room storage quota under concurrency: the sizes of the items stored
\* for a room never add up to more than MAX_ROOM_SIZE_BYTES.
C28_RoomQuota ==
    \A i \in 1..Len(dbCache.rooms) :
       sumSizes(DB_getRoomContent(dbCache.rooms[i].id)) <= MAX_ROOM_SIZE_BYTES

----------------------------------------------------------------------------
\* The candidates cleanup run p has accounted for or still holds: the ones
\* counted, the one being attempted, the ones waiting.
Accounted(p) ==
    proc[p].successCount + proc[p].failCount
       + (IF proc[p].pc \in {"dr_files", "dr_db"} THEN 1 ELSE 0)
       + Cardinality(proc[p].cands)

\* The same after this step; a run that completes reports its counts.
AccountedAfter(p) ==
    IF proc'[p].op = "cleanup"
    THEN Accounted(p)'
    ELSE reply'.successCount + reply'.failCount

\* C29. Sweep termination and accounting: a cleanup run starts with the
\* candidates of its query and with both counts at 0; every step of it keeps
\* the sum of counted, attempted and waiting candidates, taking exactly one
\* candidate off the list when it starts an attempt and none otherwise; it
\* completes only with an empty list, returning normally, so that
\* successCount + failCount is the number of candidates; a run whose query
\* fails or finds nothing returns normally with both counts 0; and every
\* run that has started completes.
C29_SweepAccounting ==
    /\ [][/\ \A p \in Procs :
                /\ (proc[p].pc = "idle" /\ proc'[p].op = "cleanup")
                      => /\ proc'[p].cands = expiredRooms
                         /\ proc'[p].successCount + proc'[p].failCount = 0
                /\ CleanupStep(p)
                      => /\ AccountedAfter(p) = Accounted(p)
                         /\ Cardinality(proc[p].cands \ CandsAfter(p))
                               = (IF proc[p].pc = "sw_loop" THEN 1 ELSE 0)
                         /\ CandsAfter(p) \subseteq proc[p].cands
                         /\ proc'[p].pc = "idle"
                               => /\ proc[p].cands \subseteq NewFailures(p)
                                  /\ reply'.op = "cleanup"
                                  /\ reply'.res = "swept"
          /\ (reply'.op = "cleanup" /\ proc' = proc)
                => /\ reply'.res \in {"swept", "failed"}
                   /\ reply'.successCount + reply'.failCount = 0
                   /\ reply'.res = "swept" => expiredRooms = {}]_vars
    /\ \A p \in Procs : (proc[p].op = "cleanup") ~> (proc[p].op # "cleanup")

\* A cleanup run over two candidates has just completed with one room
\* deleted and one failure.
C29_Witness ==
    /\ reply.op = "cleanup"
    /\ reply.res = "swept"
    /\ reply.successCount = 1
    /\ reply.failCount = 1

----------------------------------------------------------------------------
\* C30. Join round trip: typing the code of a stored room into the join
\* form and submitting leads to a page whose lookup finds that room.
C30_JoinRoundTrip ==
    (answer.op = "join" /\ DB_getRoom(answer.code).found)
       => /\ answer.res = "200"
          /\ answer.room = DB_getRoom(answer.code).id

====
